---- MODULE Spec2Model ----
(***************************************************************************)
(* Storybook API (backend/main.py): upload, list and get of storybook      *)
(* JSON records kept as one file per document in the DATA_DIR directory.   *)
(*                                                                         *)
(* Strings are sequences of one-character strings, so that the character   *)
(* tests of the code (isalnum, "in", endswith, startswith, the ordering    *)
(* of the sort key) are computed and not assumed.                          *)
(***************************************************************************)
EXTENDS Integers, Sequences, FiniteSets, TLC

(* ------------------------------ bounds -------------------------------- *)
\* number of upload requests made in a behaviour of Spec
MaxUploads == 2
\* number of upload requests made in a behaviour of SpecShared
MaxSharedUploads == 1
\* number of flushes json.dump needs to put a record on disk
DumpChunks == 1

(* ------------------------------ strings ------------------------------- *)
\* the characters used, in code point order
CharTable ==
  << " ", "-", ".", "/", "0", "1", "2", "3", "4", "5", "6", "7", "8", "9",
     "\\", "_", "a", "b", "d", "e", "g", "j", "m", "n", "o", "p", "s", "t",
     "x" >>

DigitChars == << "0", "1", "2", "3", "4", "5", "6", "7", "8", "9" >>

Ord(c) == CHOOSE i \in 1..Len(CharTable) : CharTable[i] = c

IsAlnum(c) ==
  c \in {"0", "1", "2", "3", "4", "5", "6", "7", "8", "9",
         "a", "b", "d", "e", "g", "j", "m", "n", "o", "p", "s", "t", "x"}

\* sub in s, for Python strings
Contains(s, sub) ==
  \E i \in 1..(Len(s) - Len(sub) + 1) : SubSeq(s, i, i + Len(sub) - 1) = sub

StartsWith(s, pre) ==
  Len(pre) <= Len(s) /\ SubSeq(s, 1, Len(pre)) = pre

EndsWith(s, suf) ==
  Len(suf) <= Len(s) /\ SubSeq(s, Len(s) - Len(suf) + 1, Len(s)) = suf

\* a < b for Python strings: code point by code point, a proper prefix first
RECURSIVE StrLess(_, _)
StrLess(a, b) ==
  IF b = << >> THEN FALSE
  ELSE IF a = << >> THEN TRUE
  ELSE IF Ord(Head(a)) < Ord(Head(b)) THEN TRUE
  ELSE IF Ord(Head(a)) > Ord(Head(b)) THEN FALSE
  ELSE StrLess(Tail(a), Tail(b))

RECURSIVE RStrip(_)
RStrip(s) ==
  IF s # << >> /\ s[Len(s)] = " " THEN RStrip(SubSeq(s, 1, Len(s) - 1)) ELSE s

Replace(s, old, new) == [i \in 1..Len(s) |-> IF s[i] = old THEN new ELSE s[i]]

DotJson == << ".", "j", "s", "o", "n" >>
StrMetadata == << "m", "e", "t", "a", "d", "a", "t", "a" >>
StrPages == << "p", "a", "g", "e", "s" >>

(* ------------------------- decoded JSON values ------------------------ *)
\* what json.load returns: each value is a record with the one field that
\* names its Python type
JInt(n) == [int |-> n]
JStr(s) == [str |-> s]
JNull == [null |-> TRUE]
JList(l) == [list |-> l]
JDict(d) == [dict |-> d]
\* file content that json.load rejects with JSONDecodeError
Undecodable == [undecodable |-> TRUE]

IsInt(j) == "int" \in DOMAIN j
IsStr(j) == "str" \in DOMAIN j
IsNull(j) == "null" \in DOMAIN j
IsList(j) == "list" \in DOMAIN j
IsDict(j) == "dict" \in DOMAIN j
HasKey(j, k) == k \in DOMAIN j.dict

(* --------------------------- pydantic models -------------------------- *)
\* Optional[QuestionData] = None
None == [none |-> TRUE]

ValidQuestionData(j) ==
  /\ IsDict(j)
  /\ HasKey(j, "question") /\ IsStr(j.dict["question"])
  /\ HasKey(j, "answers") /\ IsList(j.dict["answers"])
  /\ \A i \in 1..Len(j.dict["answers"].list) : IsStr(j.dict["answers"].list[i])

ParseQuestionData(j) ==
  [question |-> j.dict["question"].str,
   answers |-> [i \in 1..Len(j.dict["answers"].list) |->
                  j.dict["answers"].list[i].str]]

ValidPageData(j) ==
  /\ IsDict(j)
  /\ HasKey(j, "pageNumber") /\ IsInt(j.dict["pageNumber"])
  /\ \A k \in {"text", "imagePrompt", "imageBase64", "audioBase64"} :
       HasKey(j, k) /\ IsStr(j.dict[k])
  /\ \/ ~HasKey(j, "questions")
     \/ IsNull(j.dict["questions"])
     \/ ValidQuestionData(j.dict["questions"])

ParsePageData(j) ==
  [pageNumber |-> j.dict["pageNumber"].int,
   text |-> j.dict["text"].str,
   imagePrompt |-> j.dict["imagePrompt"].str,
   imageBase64 |-> j.dict["imageBase64"].str,
   audioBase64 |-> j.dict["audioBase64"].str,
   questions |-> IF ~HasKey(j, "questions") \/ IsNull(j.dict["questions"])
                 THEN None
                 ELSE ParseQuestionData(j.dict["questions"])]

ValidStorybookMetadata(j) ==
  /\ IsDict(j)
  /\ \A k \in {"title", "createdAt", "version", "note"} :
       HasKey(j, k) /\ IsStr(j.dict[k])
  /\ \A k \in {"totalPages", "savedPages", "skippedPages"} :
       HasKey(j, k) /\ IsInt(j.dict[k])

ParseStorybookMetadata(j) ==
  [title |-> j.dict["title"].str,
   createdAt |-> j.dict["createdAt"].str,
   totalPages |-> j.dict["totalPages"].int,
   savedPages |-> j.dict["savedPages"].int,
   skippedPages |-> j.dict["skippedPages"].int,
   version |-> j.dict["version"].str,
   note |-> j.dict["note"].str]

\* StorybookData(**data) raises (TypeError for a non-mapping, ValidationError
\* otherwise) exactly when this is false
ValidStorybookData(j) ==
  /\ IsDict(j)
  /\ HasKey(j, "metadata") /\ ValidStorybookMetadata(j.dict["metadata"])
  /\ HasKey(j, "pages") /\ IsList(j.dict["pages"])
  /\ \A i \in 1..Len(j.dict["pages"].list) :
       ValidPageData(j.dict["pages"].list[i])

ParseStorybookData(j) ==
  [metadata |-> ParseStorybookMetadata(j.dict["metadata"]),
   pages |-> [i \in 1..Len(j.dict["pages"].list) |->
                ParsePageData(j.dict["pages"].list[i])]]

\* storybook_data.model_dump()
DumpQuestions(q) ==
  IF q = None THEN JNull
  ELSE JDict([question |-> JStr(q.question),
              answers |-> JList([i \in 1..Len(q.answers) |->
                                   JStr(q.answers[i])])])

DumpPage(p) ==
  JDict([pageNumber |-> JInt(p.pageNumber),
         text |-> JStr(p.text),
         imagePrompt |-> JStr(p.imagePrompt),
         imageBase64 |-> JStr(p.imageBase64),
         audioBase64 |-> JStr(p.audioBase64),
         questions |-> DumpQuestions(p.questions)])

ModelDump(sd) ==
  JDict([metadata |-> JDict([title |-> JStr(sd.metadata.title),
                             createdAt |-> JStr(sd.metadata.createdAt),
                             totalPages |-> JInt(sd.metadata.totalPages),
                             savedPages |-> JInt(sd.metadata.savedPages),
                             skippedPages |-> JInt(sd.metadata.skippedPages),
                             version |-> JStr(sd.metadata.version),
                             note |-> JStr(sd.metadata.note)]),
         pages |-> JList([i \in 1..Len(sd.pages) |-> DumpPage(sd.pages[i])])])

(* ----------------------- identifier generation ------------------------ *)
\* c.isalnum() or c in (' ', '-', '_')
SafeTitleChar(c) == IsAlnum(c) \/ c \in {" ", "-", "_"}

\* a title whose characters are all kept
SafeTitleUnfiltered(title) == Replace(RStrip(title), " ", "_")

SafeTitle(title) == Replace(RStrip(SelectSeq(title, SafeTitleChar)), " ", "_")

\* datetime.now().strftime("%Y%m%d_%H%M%S"), the clock being second t of
\* 2025-01-01 12:00
Strftime(t) ==
  << "2", "0", "2", "5", "0", "1", "0", "1", "_", "1", "2", "0", "0",
     DigitChars[(t \div 10) + 1], DigitChars[(t % 10) + 1] >>

\* the seconds of the minute the wall clock passes through
Seconds == {0, 1}

\* the values str(uuid.uuid4())[:8] takes in the model
FileIds ==
  { << "0", "0", "0", "0", "0", "0", "0", "a" >>,
    << "0", "0", "0", "0", "0", "0", "0", "b" >> }

\* a file name without the uuid prefix
MakeFilenameNoId(safe_title, timestamp, file_id) ==
  safe_title \o << "_" >> \o timestamp \o DotJson

MakeFilename(safe_title, timestamp, file_id) ==
  safe_title \o << "_" >> \o timestamp \o << "_" >> \o file_id \o DotJson

(* ----------------------------- file system ---------------------------- *)
\* os.path.realpath(DATA_DIR), a sibling directory whose path has it as a
\* string prefix, and an unrelated directory
DataDir == << "/", "d" >>
SiblingDir == << "/", "d", "x" >>
OtherDir == << "/", "e" >>

OsPathJoin(dir, name) == dir \o << "/" >> \o name

\* no directory entry
Absent == [absent |-> TRUE]

\* A directory entry of DATA_DIR: real is the canonical path of the file the
\* entry resolves to, written the flushes that reached it, json the value its
\* complete text decodes to.
RegularFile(name, written, json) ==
  [real |-> OsPathJoin(DataDir, name), written |-> written, json |-> json]

SymLink(dir, json) ==
  [real |-> OsPathJoin(dir, << "s" >> \o DotJson), written |-> DumpChunks,
   json |-> json]

\* json.load(f) succeeds: the text is complete and is JSON
Decodable(e) == e.written = DumpChunks /\ e.json # Undecodable

\* os.path.getsize, in flushes
GetSize(e) == e.written

(* ------------------------------ documents ----------------------------- *)
QuestionData(question, answers) == [question |-> question, answers |-> answers]

PageData(pageNumber, imageBase64, questions) ==
  [pageNumber |-> pageNumber, text |-> << "t" >>, imagePrompt |-> << "p" >>,
   imageBase64 |-> imageBase64, audioBase64 |-> << "s" >>,
   questions |-> questions]

StorybookMetadata(title, createdAt, totalPages) ==
  [title |-> title, createdAt |-> createdAt, totalPages |-> totalPages,
   savedPages |-> totalPages, skippedPages |-> 0, version |-> << "1" >>,
   note |-> << >>]

\* no pages at all
EmptyBook ==
  [metadata |-> StorybookMetadata(<< "a", "_", "b" >>, << "2" >>, 0),
   pages |-> << >>]

\* a title that needs sanitizing, pages out of order, two pages numbered 1
PictureBook ==
  [metadata |->
     StorybookMetadata(<< ".", ".", "/", "a", " ", "b", " " >>, << "1", "2" >>, 3),
   pages |->
     << PageData(2, << "x" >>, None),
        PageData(1, << "b" >>,
                 QuestionData(<< "a" >>, << << "a" >>, << "b" >> >>)),
        PageData(1, << "a" >>, None) >>]

\* the validated request bodies upload_storybook receives
Docs == {EmptyBook, PictureBook}

(* --------------------- files written by other processes --------------- *)
ForeignName == << "x" >> \o DotJson

\* metadata of a listable record with a page 1 that has no imageBase64
BareMetadata ==
  JDict([title |-> JStr(<< "b" >>), createdAt |-> JStr(<< "1" >>),
         totalPages |-> JInt(1), savedPages |-> JInt(1)])

ForeignEntries ==
  { RegularFile(ForeignName, DumpChunks, j) :
      j \in { Undecodable,
              JInt(5),
              JStr(StrMetadata),
              JList(<< JInt(5) >>),
              JDict([other |-> JNull]),
              JDict([metadata |-> JNull]),
              JDict([metadata |-> JDict([title |-> JInt(5)])]),
              JDict([metadata |-> JDict([other |-> JNull])]),
              JDict([metadata |-> BareMetadata,
                     pages |-> JList(<< JDict([pageNumber |-> JInt(1)]) >>)]) } }
  \cup { SymLink(dir, ModelDump(PictureBook)) : dir \in {SiblingDir, OtherDir} }

(* ------------------------- get_storybook_list ------------------------- *)
Some(v) == [some |-> v]

\* key in data, for the values json.load returns that support "in"
KeyIn(keyName, keyChars, data) ==
  IF IsDict(data) THEN HasKey(data, keyName)
  ELSE IF IsList(data) THEN \E i \in 1..Len(data.list) : data.list[i] = JStr(keyChars)
  ELSE Contains(data.str, keyChars)

IsPage1(page) ==
  IsDict(page) /\ HasKey(page, "pageNumber") /\ page.dict["pageNumber"] = JInt(1)

\* page.get('imageBase64')
PageImage(page) ==
  IF HasKey(page, "imageBase64") THEN page.dict["imageBase64"] ELSE JNull

\* the image of the last page numbered 1
RECURSIVE Page1ImageLast(_)
Page1ImageLast(pages) ==
  IF pages = << >> THEN JNull
  ELSE IF IsPage1(pages[Len(pages)]) THEN PageImage(pages[Len(pages)])
  ELSE Page1ImageLast(SubSeq(pages, 1, Len(pages) - 1))

\* the loop of lines 172-175: the first page numbered 1, then break
RECURSIVE Page1Image(_)
Page1Image(pages) ==
  IF pages = << >> THEN JNull
  ELSE IF IsPage1(Head(pages)) THEN PageImage(Head(pages))
  ELSE Page1Image(Tail(pages))

\* the placeholder title of line 179
DefaultTitle == << "?" >>

\* metadata.get(key, default)
DictGet(d, key, default) == IF HasKey(d, key) THEN d.dict[key] ELSE default

\* What the loop body does with one file: "entry" (a FileListItem is
\* appended), "skip" (a warning is logged) or "abort" (an exception the inner
\* except clause does not catch leaves the loop).
ScanFile(filename, e) ==
  LET data == e.json
      skip == [r |-> "skip"]
      abort == [r |-> "abort"]
  IN
  IF ~Decodable(e) THEN skip
  ELSE IF IsInt(data) \/ IsNull(data) THEN abort
  ELSE IF ~KeyIn("metadata", StrMetadata, data) THEN skip
  ELSE IF ~IsDict(data) THEN abort
  ELSE
    LET metadata == data.dict["metadata"]
        page1_image ==
          IF HasKey(data, "pages") /\ IsList(data.dict["pages"])
          THEN Page1Image(data.dict["pages"].list)
          ELSE JNull
    IN
    IF ~IsDict(metadata) THEN abort
    ELSE
      LET title == DictGet(metadata, "title", JStr(DefaultTitle))
          createdAt == DictGet(metadata, "createdAt", JStr(<< >>))
          totalPages == DictGet(metadata, "totalPages", JInt(0))
          savedPages == DictGet(metadata, "savedPages", JInt(0))
      IN
      IF /\ IsStr(title) /\ IsStr(createdAt)
         /\ IsInt(totalPages) /\ IsInt(savedPages)
         /\ (IsNull(page1_image) \/ IsStr(page1_image))
      THEN [r |-> "entry",
            item |-> [filename |-> filename,
                      title |-> title.str,
                      createdAt |-> createdAt.str,
                      totalPages |-> totalPages.int,
                      savedPages |-> savedPages.int,
                      fileSize |-> GetSize(e),
                      imageBase64 |-> IF IsNull(page1_image) THEN None
                                      ELSE Some(page1_image.str)]]
      ELSE skip

\* a sort that puts the oldest first
RECURSIVE SortAscending(_)
SortAscending(list) ==
  IF list = << >> THEN << >>
  ELSE
    LET rest == SortAscending(SubSeq(list, 1, Len(list) - 1))
        x == list[Len(list)]
        k == Cardinality({i \in 1..Len(rest) :
                            ~StrLess(x.createdAt, rest[i].createdAt)})
    IN SubSeq(rest, 1, k) \o << x >> \o SubSeq(rest, k + 1, Len(rest))

\* file_list.sort(key=lambda x: x.createdAt, reverse=True): stable, equal keys
\* keep the order they were appended in
RECURSIVE SortByCreatedAt(_)
SortByCreatedAt(list) ==
  IF list = << >> THEN << >>
  ELSE
    LET rest == SortByCreatedAt(SubSeq(list, 1, Len(list) - 1))
        x == list[Len(list)]
        k == Cardinality({i \in 1..Len(rest) :
                            ~StrLess(rest[i].createdAt, x.createdAt)})
    IN SubSeq(rest, 1, k) \o << x >> \o SubSeq(rest, k + 1, Len(rest))

\* the loop over os.listdir(DATA_DIR), in the order it yields the names
RECURSIVE ScanDir(_, _)
ScanDir(fs, order) ==
  IF order = << >> THEN [abort |-> FALSE, file_list |-> << >>]
  ELSE
    LET sofar == ScanDir(fs, SubSeq(order, 1, Len(order) - 1))
        filename == order[Len(order)]
        one == IF EndsWith(filename, DotJson)
               THEN ScanFile(filename, fs[filename])
               ELSE [r |-> "skip"]
    IN
    IF sofar.abort \/ one.r = "abort" THEN [abort |-> TRUE, file_list |-> << >>]
    ELSE IF one.r = "entry"
    THEN [abort |-> FALSE, file_list |-> Append(sofar.file_list, one.item)]
    ELSE sofar

GetStorybookList(fs, order) ==
  LET scan == ScanDir(fs, order) IN
  IF scan.abort
  THEN [op |-> "list", status_code |-> 500, body |-> << >>]
  ELSE [op |-> "list", status_code |-> 200,
        body |-> SortByCreatedAt(scan.file_list)]

(* ---------------------- get_storybook_by_filename --------------------- *)
\* the test of line 216 without the backslash
HasForbiddenNoBackslash(filename) ==
  Contains(filename, << ".", "." >>) \/ Contains(filename, << "/" >>)

\* '..' in filename or '/' in filename or '\\' in filename
HasForbidden(filename) ==
  \/ Contains(filename, << ".", "." >>)
  \/ Contains(filename, << "/" >>)
  \/ Contains(filename, << "\\" >>)

WithExtension(filename) ==
  IF EndsWith(filename, DotJson) THEN filename ELSE filename \o DotJson

\* an HTTPException, or the 200 response; fs_calls are the file system calls
\* made before it, detail the place that raised it
HttpResponse(arg, status_code, detail, fs_calls, body) ==
  [op |-> "get", filename |-> arg, status_code |-> status_code,
   detail |-> detail, fs_calls |-> fs_calls, body |-> body]

\* a decode error answered as if the file were missing
JsonDecodeErrorAsNotFound(arg, fs_calls) ==
  HttpResponse(arg, 404, "json_invalid", fs_calls, None)

\* except json.JSONDecodeError, lines 249-254
JsonDecodeError(arg, fs_calls) ==
  HttpResponse(arg, 500, "json_invalid", fs_calls, None)

GetStorybookByFilename(fs, arg) ==
  IF HasForbidden(arg)
  THEN HttpResponse(arg, 400, "invalid_filename", << >>, None)
  ELSE
    LET filename == WithExtension(arg) IN
    IF filename \notin DOMAIN fs
    THEN HttpResponse(arg, 404, "not_found", << "exists" >>, None)
    ELSE IF ~StartsWith(fs[filename].real, DataDir)
    THEN HttpResponse(arg, 400, "invalid_path", << "exists", "realpath" >>, None)
    ELSE
      LET fs_calls == << "exists", "realpath", "open" >>
          data == fs[filename].json
      IN
      IF ~Decodable(fs[filename]) THEN JsonDecodeError(arg, fs_calls)
      ELSE IF IsInt(data) \/ IsNull(data)
      THEN HttpResponse(arg, 500, "unexpected", fs_calls, None)
      ELSE IF \/ ~KeyIn("metadata", StrMetadata, data)
              \/ ~KeyIn("pages", StrPages, data)
      THEN HttpResponse(arg, 500, "format_invalid", fs_calls, None)
      ELSE IF ~ValidStorybookData(data)
      THEN HttpResponse(arg, 500, "validation", fs_calls, None)
      ELSE HttpResponse(arg, 200, "ok", fs_calls, ParseStorybookData(data))

(* -------------------------------- state ------------------------------- *)
\* The handlers are steps of server processes that share DATA_DIR: an upload
\* is the steps open, dump, getsize, and a list or a get request of another
\* process is one step that may fall between them.
VARIABLES
  files,    \* DATA_DIR: file name -> directory entry
  clock,    \* datetime.now(), in seconds
  uploads,  \* the upload requests so far, the last one possibly in progress
  resp      \* the response of a list or get request, until the client takes it

vars == << files, clock, uploads, resp >>

NoResponse == [op |-> "none"]

\* the identifiers a client asks for: the stored names with and without the
\* extension, and names that are never stored
GetArgs ==
  DOMAIN files
  \cup { SubSeq(n, 1, Len(n) - Len(DotJson)) : n \in DOMAIN files }
  \cup { << "n" >>, << ".", "." >>, << "a", "/", "b" >>, << "a", "\\", "b" >>,
         << "n", ".", ".", "j", "s", "o", "n" >> }

ListDirOrders(S) ==
  { p \in [1..Cardinality(S) -> S] : \A i, j \in 1..Cardinality(S) : p[i] = p[j] => i = j }

InFlight ==
  uploads # << >> /\ uploads[Len(uploads)].status \in {"open", "dumped"}

Init ==
  /\ files = << >>
  /\ clock = 0
  /\ uploads = << >>
  /\ resp = NoResponse

\* upload_storybook up to open(file_path, 'w'), which creates or truncates
UploadOpenUpTo(limit) ==
  /\ resp = NoResponse
  /\ ~InFlight
  /\ Len(uploads) < limit
  /\ \E storybook_data \in Docs, file_id \in FileIds :
       LET timestamp == Strftime(clock)
           safe_title == SafeTitle(storybook_data.metadata.title)
           filename == MakeFilename(safe_title, timestamp, file_id)
           prior == IF filename \in DOMAIN files THEN files[filename] ELSE Absent
           entry == RegularFile(filename, 0, ModelDump(storybook_data))
       IN
       /\ files' = [n \in DOMAIN files \cup {filename} |->
                      IF n = filename THEN entry ELSE files[n]]
       /\ uploads' = Append(uploads,
                            [storybook_data |-> storybook_data,
                             timestamp |-> timestamp, file_id |-> file_id,
                             filename |-> filename, prior |-> prior,
                             status |-> "open", status_code |-> 0,
                             file_size |-> 0])
  /\ UNCHANGED << clock, resp >>

\* open() raises: nothing is created, the handler answers 500
UploadOpenFailsUpTo(limit) ==
  /\ resp = NoResponse
  /\ ~InFlight
  /\ Len(uploads) < limit
  /\ \E storybook_data \in Docs, file_id \in FileIds :
       LET timestamp == Strftime(clock)
           safe_title == SafeTitle(storybook_data.metadata.title)
           filename == MakeFilename(safe_title, timestamp, file_id)
           prior == IF filename \in DOMAIN files THEN files[filename] ELSE Absent
       IN
       uploads' = Append(uploads,
                         [storybook_data |-> storybook_data,
                          timestamp |-> timestamp, file_id |-> file_id,
                          filename |-> filename, prior |-> prior,
                          status |-> "refused", status_code |-> 500,
                          file_size |-> 0])
  /\ UNCHANGED << files, clock, resp >>

UploadOpen == UploadOpenUpTo(MaxUploads)
UploadOpenFails == UploadOpenFailsUpTo(MaxUploads)
SharedUploadOpen == UploadOpenUpTo(MaxSharedUploads)
SharedUploadOpenFails == UploadOpenFailsUpTo(MaxSharedUploads)

\* json.dump: one more flush reaches the file; after the last the file is closed
UploadDump ==
  /\ resp = NoResponse
  /\ InFlight
  /\ uploads[Len(uploads)].status = "open"
  /\ LET u == uploads[Len(uploads)]
         written == files[u.filename].written + 1
     IN
     /\ files' = [files EXCEPT ![u.filename].written = written]
     /\ uploads' = [uploads EXCEPT ![Len(uploads)].status =
                      IF written = DumpChunks THEN "dumped" ELSE "open"]
  /\ UNCHANGED << clock, resp >>

\* os.path.getsize and the 200 response
UploadFinish ==
  /\ resp = NoResponse
  /\ InFlight
  /\ uploads[Len(uploads)].status = "dumped"
  /\ LET u == uploads[Len(uploads)] IN
     uploads' = [uploads EXCEPT ![Len(uploads)].status = "ok",
                                ![Len(uploads)].status_code = 200,
                                ![Len(uploads)].file_size = GetSize(files[u.filename])]
  /\ UNCHANGED << files, clock, resp >>

\* json.dump or os.path.getsize raises: except Exception answers 500 and
\* leaves the file as it is
UploadFails ==
  /\ resp = NoResponse
  /\ InFlight
  /\ uploads' = [uploads EXCEPT ![Len(uploads)].status = "failed",
                                ![Len(uploads)].status_code = 500]
  /\ UNCHANGED << files, clock, resp >>

Tick ==
  /\ resp = NoResponse
  /\ clock + 1 \in Seconds
  /\ clock' = clock + 1
  /\ UNCHANGED << files, uploads, resp >>

List ==
  /\ resp = NoResponse
  /\ \E order \in ListDirOrders(DOMAIN files) :
       resp' = GetStorybookList(files, order)
  /\ UNCHANGED << files, clock, uploads >>

Get ==
  /\ resp = NoResponse
  /\ \E arg \in GetArgs : resp' = GetStorybookByFilename(files, arg)
  /\ UNCHANGED << files, clock, uploads >>

\* the client takes the response of its list or get request
Deliver ==
  /\ resp # NoResponse
  /\ resp' = NoResponse
  /\ UNCHANGED << files, clock, uploads >>

\* another process with access to DATA_DIR creates a file or a link in it
ExternalPut ==
  /\ resp = NoResponse
  /\ ForeignName \notin DOMAIN files
  /\ \E entry \in ForeignEntries :
       files' = [n \in DOMAIN files \cup {ForeignName} |->
                   IF n = ForeignName THEN entry ELSE files[n]]
  /\ UNCHANGED << clock, uploads, resp >>

Next ==
  \/ UploadOpen
  \/ UploadOpenFails
  \/ UploadDump
  \/ UploadFinish
  \/ UploadFails
  \/ Tick
  \/ List
  \/ Get
  \/ Deliver

\* the API alone, on a storage root no other process writes to
Spec == Init /\ [][Next]_vars

NextShared ==
  \/ SharedUploadOpen
  \/ SharedUploadOpenFails
  \/ UploadDump
  \/ UploadFinish
  \/ UploadFails
  \/ Tick
  \/ List
  \/ Get
  \/ Deliver
  \/ ExternalPut

\* the API on a storage root that another process puts a file into
SpecShared == Init /\ [][NextShared]_vars

(* ------------------------------- claims ------------------------------- *)
Ok(i) == uploads[i].status = "ok"

\* upload i opened its file
Wrote(i) == uploads[i].status # "refused"

\* a later upload opened the file of upload i
OverwrittenLater(i) ==
  \E j \in (i + 1)..Len(uploads) :
    Wrote(j) /\ uploads[j].filename = uploads[i].filename

\* the identifier as returned, or without its extension
Names(filename, arg) ==
  arg = filename \/ arg \o DotJson = filename

\* C1: a Get of the identifier a successful Upload returned, with no other
\* upload of that identifier in between, answers 200 with the document that
\* was uploaded: same metadata, same pages in the same order, every field of
\* every page unchanged.
C1_RoundTrip ==
  \A i \in 1..Len(uploads) :
    ( /\ Ok(i)
      /\ ~OverwrittenLater(i)
      /\ resp.op = "get"
      /\ Names(uploads[i].filename, resp.filename) )
    => /\ resp.status_code = 200
       /\ resp.body = uploads[i].storybook_data

\* the picture book is read back after another upload was made
C1_Witness ==
  /\ Len(uploads) = 2
  /\ Ok(1) /\ Ok(2)
  /\ uploads[1].storybook_data = PictureBook
  /\ resp.op = "get"
  /\ resp.filename = uploads[1].filename
  /\ resp.status_code = 200
  /\ resp.body = PictureBook

\* C2: a Get of an identifier that contains '..', '/' or a backslash answers
\* 400 whatever the store holds, having made no file system call, and leaves
\* the store as it was.
C2_IdentifierSafety ==
  /\ [] ( ( /\ resp.op = "get"
            /\ \/ Contains(resp.filename, << ".", "." >>)
               \/ Contains(resp.filename, << "/" >>)
               \/ Contains(resp.filename, << "\\" >>) )
          => /\ resp.status_code = 400
             /\ resp.fs_calls = << >> )
  /\ [][resp'.op = "get" => files' = files]_vars

\* a backslash is refused while the store holds files
C2_Witness ==
  /\ resp.op = "get"
  /\ resp.filename = << "a", "\\", "b" >>
  /\ resp.status_code = 400
  /\ ForeignName \in DOMAIN files
  /\ uploads # << >>

\* C3 as claimed: any two successful Uploads have returned distinct
\* identifiers, so that no Upload overwrites the record of an earlier one.
C3_DistinctIdentifiers ==
  \A i, j \in 1..Len(uploads) :
    (i < j /\ Ok(i) /\ Ok(j)) => uploads[i].filename # uploads[j].filename

\* C3, amended: two Uploads get the same identifier exactly when their
\* sanitized titles, their timestamps and their uuid prefixes all coincide;
\* a successful Upload whose identifier no later Upload took is stored whole
\* under it, with its own content.
C3_DistinctUnlessSameParts ==
  /\ \A i, j \in 1..Len(uploads) :
       (uploads[i].filename = uploads[j].filename)
       <=> /\ SafeTitle(uploads[i].storybook_data.metadata.title)
               = SafeTitle(uploads[j].storybook_data.metadata.title)
           /\ uploads[i].timestamp = uploads[j].timestamp
           /\ uploads[i].file_id = uploads[j].file_id
  /\ \A i \in 1..Len(uploads) :
       (Ok(i) /\ ~OverwrittenLater(i))
       => /\ uploads[i].filename \in DOMAIN files
          /\ Decodable(files[uploads[i].filename])
          /\ ValidStorybookData(files[uploads[i].filename].json)
          /\ ParseStorybookData(files[uploads[i].filename].json)
               = uploads[i].storybook_data

\* two uploads of the same document in the same second, told apart by the
\* uuid prefix alone, are both stored
C3_Witness ==
  /\ Len(uploads) = 2
  /\ Ok(1) /\ Ok(2)
  /\ uploads[1].storybook_data = uploads[2].storybook_data
  /\ uploads[1].timestamp = uploads[2].timestamp
  /\ uploads[1].file_id # uploads[2].file_id
  /\ uploads[1].filename # uploads[2].filename
  /\ {uploads[1].filename, uploads[2].filename} \subseteq DOMAIN files

\* the record a file must hold for the listing to show it: decodable, an
\* object, with an object as metadata whose fields, where present, have the
\* types of a catalog entry
WellFormed(e) ==
  /\ Decodable(e)
  /\ IsDict(e.json)
  /\ HasKey(e.json, "metadata")
  /\ IsDict(e.json.dict["metadata"])
  /\ \A k \in {"title", "createdAt"} :
       HasKey(e.json.dict["metadata"], k) => IsStr(e.json.dict["metadata"].dict[k])
  /\ \A k \in {"totalPages", "savedPages"} :
       HasKey(e.json.dict["metadata"], k) => IsInt(e.json.dict["metadata"].dict[k])

ListedNames == { resp.body[k].filename : k \in 1..Len(resp.body) }

\* C4 as claimed: with one malformed .json file in the storage root, List
\* answers without an error and returns the entries of the other records.
C4_ListSkipsMalformed ==
  resp.op = "list"
  => /\ resp.status_code = 200
     /\ ListedNames = { n \in DOMAIN files : WellFormed(files[n]) }

\* C5 as claimed: while an Upload is in progress, a Get of its identifier
\* answers NotFound or the whole document, never a server error.
C5_NoPartialRecordRead ==
  ( /\ InFlight
    /\ resp.op = "get"
    /\ Names(uploads[Len(uploads)].filename, resp.filename) )
  => \/ resp.status_code = 404
     \/ /\ resp.status_code = 200
        /\ resp.body = uploads[Len(uploads)].storybook_data

\* C6 as claimed: after an Upload answered 500, the store holds under its
\* file name what it held before the Upload began.
C6_FailedUploadLeavesNoFile ==
  \A i \in 1..Len(uploads) :
    (i = Len(uploads) /\ uploads[i].status_code = 500)
    => IF uploads[i].prior = Absent
       THEN uploads[i].filename \notin DOMAIN files
       ELSE /\ uploads[i].filename \in DOMAIN files
            /\ files[uploads[i].filename] = uploads[i].prior

\* C7: the sequence List returns is ordered newest first by the createdAt
\* strings compared code point by code point, and holds exactly one entry for
\* each record of the store.
C7_SortedNewestFirst ==
  (resp.op = "list" /\ resp.status_code = 200)
  => /\ \A k \in 1..(Len(resp.body) - 1) :
          ~StrLess(resp.body[k].createdAt, resp.body[k + 1].createdAt)
     /\ \A k, l \in 1..Len(resp.body) :
          resp.body[k].filename = resp.body[l].filename => k = l
     /\ ListedNames = { n \in DOMAIN files : WellFormed(files[n]) }

\* "2" is listed before "12": string order, not the order of the numbers
C7_Witness ==
  /\ resp.op = "list"
  /\ resp.status_code = 200
  /\ Len(resp.body) = 2
  /\ resp.body[1].createdAt = << "2" >>
  /\ resp.body[2].createdAt = << "1", "2" >>

\* the failure kind of a response of Get, by the place that raised it
ErrorKind(r) ==
  CASE r.detail \in {"invalid_filename", "invalid_path"} -> "InvalidIdentifier"
    [] r.detail = "not_found" -> "NotFound"
    [] r.detail = "json_invalid" -> "CorruptRecord"
    [] r.detail \in {"format_invalid", "validation", "unexpected"} -> "SchemaViolation"
    [] OTHER -> "none"

\* C8 as claimed: two Gets that fail in different ways answer with different
\* statuses.
C8_DistinctStatuses ==
  \A a, b \in GetArgs :
    LET ra == GetStorybookByFilename(files, a)
        rb == GetStorybookByFilename(files, b)
    IN
    ( /\ ra.status_code # 200
      /\ rb.status_code # 200
      /\ ErrorKind(ra) # ErrorKind(rb) )
    => ra.status_code # rb.status_code

\* C8, amended: an identifier with a forbidden character or a path that
\* leaves the root answers 400, a missing file 404, and a file that cannot be
\* decoded and a file that decodes to something that is no storybook both
\* answer 500.
C8_StatusByFailure ==
  resp.op = "get"
  => LET arg == resp.filename
         filename == IF EndsWith(arg, DotJson) THEN arg ELSE arg \o DotJson
     IN
     resp.status_code =
       IF \/ Contains(arg, << ".", "." >>)
          \/ Contains(arg, << "/" >>)
          \/ Contains(arg, << "\\" >>)
       THEN 400
       ELSE IF filename \notin DOMAIN files THEN 404
       ELSE IF ~StartsWith(files[filename].real, DataDir) THEN 400
       ELSE IF ~Decodable(files[filename]) THEN 500
       ELSE IF ~ValidStorybookData(files[filename].json) THEN 500
       ELSE 200

\* a record that fails validation is answered 500 while the store also holds
\* a file that cannot be decoded
C8_Witness ==
  /\ resp.op = "get"
  /\ resp.detail = "validation"
  /\ resp.status_code = 500
  /\ \E n \in DOMAIN files : ~Decodable(files[n])

\* the canonical path lies in the storage root
InsideRoot(path) == StartsWith(path, DataDir \o << "/" >>)

\* C9 as claimed: neither Get nor List returns content of a file whose
\* canonical path lies outside the storage root.
C9_RootContainment ==
  /\ (resp.op = "get" /\ resp.status_code = 200)
     => InsideRoot(files[IF EndsWith(resp.filename, DotJson) THEN resp.filename
                         ELSE resp.filename \o DotJson].real)
  /\ (resp.op = "list" /\ resp.status_code = 200)
     => \A k \in 1..Len(resp.body) : InsideRoot(files[resp.body[k].filename].real)

\* the pages of a stored record, none if it has no list of pages
PagesOf(e) ==
  IF HasKey(e.json, "pages") /\ IsList(e.json.dict["pages"])
  THEN e.json.dict["pages"].list
  ELSE << >>

Numbered1(page) ==
  IsDict(page) /\ HasKey(page, "pageNumber") /\ page.dict["pageNumber"] = JInt(1)

\* C10: the image of a catalog entry is the imageBase64 of the first page, in
\* stored order, whose pageNumber is 1, and is absent when there is no such
\* page or it has no imageBase64; a stored document with no pages is listed
\* with no image.
C10_CatalogImage ==
  (resp.op = "list" /\ resp.status_code = 200)
  => /\ \A k \in 1..Len(resp.body) :
          LET pages == PagesOf(files[resp.body[k].filename])
              ones == { i \in 1..Len(pages) : Numbered1(pages[i]) }
          IN
          IF ones = {} THEN resp.body[k].imageBase64 = None
          ELSE LET first == CHOOSE i \in ones : \A l \in ones : i <= l IN
               IF HasKey(pages[first], "imageBase64")
                  /\ IsStr(pages[first].dict["imageBase64"])
               THEN resp.body[k].imageBase64
                      = Some(pages[first].dict["imageBase64"].str)
               ELSE resp.body[k].imageBase64 = None
     /\ \A i \in 1..Len(uploads) :
          (Ok(i) /\ ~OverwrittenLater(i) /\ uploads[i].storybook_data = EmptyBook)
          => \E k \in 1..Len(resp.body) :
               /\ resp.body[k].filename = uploads[i].filename
               /\ resp.body[k].totalPages = 0
               /\ resp.body[k].imageBase64 = None

\* the picture book is listed with the image of its second page, the first
\* one numbered 1, next to the uploaded book without pages
C10_Witness ==
  /\ resp.op = "list"
  /\ resp.status_code = 200
  /\ \E k, l \in 1..Len(resp.body) :
       /\ resp.body[k].imageBase64 = Some(<< "b" >>)
       /\ resp.body[l].imageBase64 = None
       /\ resp.body[l].totalPages = 0
       /\ \E i \in 1..Len(uploads) :
            Ok(i) /\ uploads[i].filename = resp.body[l].filename

====
